---- MODULE Spec2Model ----
(***************************************************************************)
(* Model of the Assessment-2 grading harness (autograder-assessment-2.py)  *)
(* and of the reference candidate module (submission.py).                  *)
(*                                                                         *)
(* The module holds several independent state machines, one per part of    *)
(* the program, each with its own specification:                           *)
(*   SpecGrader  the check battery, the result object and main()'s scoring *)
(*   SpecEnv     TempEnviron over os.environ                               *)
(*   SpecLock    Locked over a threading.Lock, with a clock                *)
(*   SpecTxn     autocommit_sqlite over a sqlite3 connection               *)
(*   SpecRetry   retry_on_operational_error and db_guardrail               *)
(*   SpecQuery   run_query over its cursor and connection                  *)
(*   SpecFile    FileOpenerCM and file_opener_cm                           *)
(*   SpecDeco    timer and catch_and_log                                   *)
(*   SpecLoader  the command line and the import of the candidate module   *)
(*   SpecChecks  what the checks of the battery create and tear down       *)
(*   SpecCapture LogCapture instances on one logger name                   *)
(* SpecRetryFair is SpecRetry with the loop of a started call going on.    *)
(* Every specification starts with the other parts idle and leaves their   *)
(* variables unchanged.                                                    *)
(***************************************************************************)
EXTENDS Integers, Sequences, FiniteSets, TLC

VARIABLES
    \* ---- grader: autograder-assessment-2.py ----
    gpc,          \* position of main(): "start", "running", "finished", "done"
    importable,   \* input: can the candidate module be imported
    SUB,          \* CMDecoratorGrader.SUB: "unset" or "module"
    ran,          \* the checks executed so far, in execution order
    outcomes,     \* what each executed check did: "pass", "assert", "exception"
    lastCause,    \* why the most recent check ended as it did
    testsRun,     \* result.testsRun
    failures,     \* result.failures (test ids)
    errors,       \* result.errors (test ids; 0 is the setUpClass holder)
    details,      \* result.details
    summary,      \* the report main() prints, NoSummary before that
    propagated,   \* the exception that leaves main(), "none" if it returns
    \* ---- TempEnviron: submission.py ----
    environ,      \* os.environ: variable -> its value, None when not set
    scopes,       \* the TempEnviron scopes that are open, innermost last
    exc,          \* an exception raised in a body is propagating
    lastExit,     \* the scope the last step exited, NoExit after any other step
    \* ---- Locked: submission.py ----
    locked,       \* threading.Lock: is it held
    holder,       \* the thread that holds it, NoThread when free
    lpc,          \* per thread: "idle", "waiting", "body", "rawheld"
    l_timeout,    \* per thread: Locked._timeout of its scope
    l_acquired,   \* per thread: Locked._acquired of its scope
    acqTimeout,   \* per thread: the timeout the pending lock.acquire was given
    waited,       \* per thread: ticks spent in the pending lock.acquire
    lresult,      \* per thread: how its last operation ended
    \* ---- autocommit_sqlite: submission.py ----
    committed,    \* rows committed to the database file
    pending,      \* rows written on the connection and not yet committed
    connOpen,     \* is the connection open
    tpc,          \* "idle", or "in_call" while the wrapped callable runs
    written,      \* rows the wrapped callable wrote in the current or last call
    atCall,       \* committed and pending rows when the call began
    funcDid,      \* how the wrapped callable ended in the last call
    callerSees,   \* what the last call gave its caller, NoResult before any
    \* ---- retry_on_operational_error, db_guardrail: submission.py ----
    rpc,          \* "idle", "running" in the wrapper's loop, "done"
    rwrap,        \* the wrapper called: "retry" or "guardrail"
    r_retries,    \* its retries argument
    r_backoff,    \* its backoff argument, in units of time
    r_jitter,     \* its jitter argument (retry_on_operational_error only)
    attempt,      \* the loop's attempt counter
    rtrace,       \* what happened so far: calls, log entries and sleeps, in order
    rresult,      \* what the wrapper gave its caller, NoResult while running
    \* ---- run_query: submission.py ----
    qpc,          \* "idle", "connected", "executed", "done"
    q_sql,        \* the statement of the call: [kind, row]
    q_conn,       \* the connection the call opened: "none", "open", "closed"
    q_cur,        \* its cursor: "none", "open", "closed"
    q_committed,  \* rows of the table, committed
    q_pending,    \* rows written on the call's connection and not committed
    q_executed,   \* how execute and fetchall ended, NoResult before
    q_result,     \* what run_query gave its caller, NoResult before
    q_unclosed,   \* connections of earlier calls that are still open
    \* ---- FileOpenerCM, file_opener_cm: submission.py ----
    fpc,          \* "idle", "body" inside the with block, "exited"
    f_form,       \* "class" for FileOpenerCM, "generator" for file_opener_cm
    f_mode,       \* the mode the file was opened with: "r", "w", "a"
    f_closeFails, \* whether close() of this handle raises (a full device)
    f_handle,     \* the handle yielded to the body: "none", "open", "closed"
    f_buffered,   \* chunks the body wrote to the handle
    f_content,    \* chunks in the file
    f_body,       \* how the body ended, NoResult before
    f_caller,     \* what the with statement gave its caller, NoResult before
    \* ---- timer, catch_and_log: submission.py ----
    dpc,          \* "idle", "decorated", "done" after a call of the wrapper
    d_deco,       \* the decorator applied: "timer" or "catch_and_log"
    d_fname,      \* __name__ of the callable that was wrapped
    d_wname,      \* __name__ of the wrapper
    d_logger,     \* whether a logger was supplied
    d_level,      \* timer's level argument, None when not given
    d_reraise,    \* catch_and_log's reraise argument
    d_calls,      \* calls of the wrapper so far
    d_emitted,    \* everything emitted since the decoration, in order
    d_last,       \* what the last call emitted
    d_func,       \* how the callable ended in the last call, NoResult before
    d_caller,     \* what the wrapper gave its caller, NoResult before
    \* ---- the command line and the import: autograder-assessment-2.py ----
    mpc,          \* "start", "named" after lines 107-110, "imported"
    sys_argv,     \* sys.argv: the script, then the arguments
    installed,    \* the modules that can be imported
    mod_name,     \* mod_name of setUpClass, None when there is none
    m_loaded,     \* the module bound to cls.SUB, None before and on failure
    m_error,      \* the exception that left import_submission, None if none
    \* ---- what the checks create: autograder-assessment-2.py ----
    cpc,          \* "between" checks, "started", "body", "finishing"
    c_test,       \* the check that runs, or the last one that ran; 0 before
    c_cause,      \* why that check ended, "none" while it runs
    c_live,       \* what is open, held or attached: records [kind, owner]
    \* ---- LogCapture on one logger name: autograder-assessment-2.py ----
    handlers,     \* logger.handlers: the instances whose handler is attached
    loggerLevel,  \* logger.level
    instances,    \* per LogCapture instance: its level and the number of
                  \* texts emitted before it was created
    streams,      \* per instance: the texts in its StringIO, in order
    emitted,      \* the number of texts emitted to the logger so far
    flushed       \* the last flush_text: [inst, text], NoFlush before any

graderVars == <<gpc, importable, SUB, ran, outcomes, lastCause, testsRun,
                failures, errors, details, summary, propagated>>
envVars == <<environ, scopes, exc, lastExit>>
lockVars == <<locked, holder, lpc, l_timeout, l_acquired, acqTimeout, waited, lresult>>
txnVars == <<committed, pending, connOpen, tpc, written, atCall, funcDid, callerSees>>
retryVars == <<rpc, rwrap, r_retries, r_backoff, r_jitter, attempt, rtrace, rresult>>
queryVars == <<qpc, q_sql, q_conn, q_cur, q_committed, q_pending, q_executed, q_result,
               q_unclosed>>
fileVars == <<fpc, f_form, f_mode, f_closeFails, f_handle, f_buffered, f_content, f_body,
              f_caller>>
decoVars == <<dpc, d_deco, d_fname, d_wname, d_logger, d_level, d_reraise, d_calls,
              d_emitted, d_last, d_func, d_caller>>
loaderVars == <<mpc, sys_argv, installed, mod_name, m_loaded, m_error>>
checkVars == <<cpc, c_test, c_cause, c_live>>
captureVars == <<handlers, loggerLevel, instances, streams, emitted, flushed>>
laterVars == <<retryVars, queryVars, fileVars, decoVars, loaderVars, checkVars, captureVars>>
vars == <<graderVars, envVars, lockVars, txnVars, laterVars>>

\* --------------------------------------------------------------------------
\* Grader
\* --------------------------------------------------------------------------

\* The battery: test_01 .. test_11 of CMDecoratorGrader.
NumChecks == 11

\* loadTestsFromTestCase sorts the method names: test_01 < ... < test_11.
Suite == [i \in 1..NumChecks |-> i]

\* The id of the holder unittest reports a failed setUpClass under.
SetUpClassId == 0

NoSummary == [emitted |-> FALSE]

\* Why a check ends: the capability is there and behaves ("ok"), the
\* capability is missing (the hasattr assertion), an assertion on behaviour
\* does not hold, or the check raises something else.
Causes == {"ok", "missing", "violation", "exception"}

\* The outcome unittest sees for a check body.
CheckOutcome(cause) ==
    CASE cause = "ok"        -> "pass"
      [] cause = "missing"   -> "assert"
      [] cause = "violation" -> "assert"
      [] cause = "exception" -> "exception"

\* ScoringTestRunner(verbosity=2): failfast is left at its default.
failfastOn == TRUE
failfast == FALSE

\* The message of a non-passed record: the formatted traceback, never empty.
Traceback == "traceback"

addSuccess(test) ==
    /\ details' = Append(details, [test |-> test, status |-> "passed", message |-> ""])
    /\ UNCHANGED <<failures, errors>>

\* An addFailure that records no message.
addFailureNoMessage(test) ==
    /\ failures' = Append(failures, test)
    /\ details' = Append(details, [test |-> test, status |-> "failed", message |-> ""])
    /\ UNCHANGED errors

addFailure(test) ==
    /\ failures' = Append(failures, test)
    /\ details' = Append(details, [test |-> test, status |-> "failed", message |-> Traceback])
    /\ UNCHANGED errors

addErrorUncounted(test) ==
    /\ details' = Append(details, [test |-> test, status |-> "error", message |-> Traceback])
    /\ UNCHANGED <<failures, errors>>

addError(test) ==
    /\ errors' = Append(errors, test)
    /\ details' = Append(details, [test |-> test, status |-> "error", message |-> Traceback])
    /\ UNCHANGED failures

\* setUpClass: import the candidate. An exception here is caught by the test
\* suite, reported through addError under the class holder, and every test
\* of the class is then skipped without being started.
setUpClass ==
    /\ gpc = "start"
    /\ IF importable
         THEN /\ SUB' = "module"
              /\ gpc' = "running"
              /\ UNCHANGED <<failures, errors, details>>
         ELSE /\ addError(SetUpClassId)
              /\ gpc' = "finished"
              /\ UNCHANGED SUB
    /\ UNCHANGED <<importable, ran, outcomes, lastCause, testsRun, summary, propagated>>
    /\ UNCHANGED <<envVars, lockVars, txnVars, laterVars>>

\* One check of the battery: startTest counts it, the body runs, and the
\* outcome is recorded; the loop goes on to the next test of the suite.
RunCheck(cause) ==
    /\ gpc = "running"
    /\ Len(ran) < NumChecks
    /\ LET test == Suite[Len(ran) + 1]
           outcome == CheckOutcome(cause)
       IN /\ testsRun' = testsRun + 1
          /\ ran' = Append(ran, test)
          /\ outcomes' = Append(outcomes, outcome)
          /\ lastCause' = cause
          /\ CASE outcome = "pass"      -> addSuccess(test)
               [] outcome = "assert"    -> addFailure(test)
               [] outcome = "exception" -> addError(test)
          /\ gpc' = IF Len(ran) + 1 = NumChecks \/ (failfast /\ outcome # "pass")
                      THEN "finished" ELSE "running"
    /\ UNCHANGED <<importable, SUB, summary, propagated>>
    /\ UNCHANGED <<envVars, lockVars, txnVars, laterVars>>

\* A rounding that truncates instead of rounding to nearest.
Round2Trunc(n, d) == (100 * n) \div d

\* round(x, 2) of n/d, in hundredths: nearest, ties to even.
Round2(n, d) ==
    LET q == (100 * n) \div d
        r == (100 * n) % d
    IN IF 2 * r > d \/ (2 * r = d /\ q % 2 = 1) THEN q + 1 ELSE q

Min(a, b) == IF a < b THEN a ELSE b
Max(a, b) == IF a > b THEN a ELSE b

\* A score without the clamp, dividing by 1 when no test ran.
ScoreNoClamp(passed, total) ==
    Round2(passed * 100, IF total # 0 THEN total ELSE 1)

\* main(), lines 349-351: the score, in hundredths of a point.
\* per_test is 0.0 when no test ran, and then passed * per_test is zero.
Score(passed, total) ==
    Max(0, Min(10000, IF total # 0 THEN Round2(passed * 100, total) ELSE 0))

\* main() after runner.run returns: tally, score, print.
main ==
    /\ gpc = "finished"
    /\ LET total_tests == testsRun
           failed == Len(failures)
           errored == Len(errors)
           passed == total_tests - failed - errored
       IN summary' = [emitted |-> TRUE,
                      score |-> Score(passed, total_tests),
                      max_score |-> 10000,
                      tests |-> total_tests,
                      passed |-> passed,
                      failed |-> failed,
                      errored |-> errored,
                      details |-> details]
    /\ gpc' = "done"
    /\ UNCHANGED <<importable, SUB, ran, outcomes, lastCause, testsRun,
                   failures, errors, details, propagated>>
    /\ UNCHANGED <<envVars, lockVars, txnVars, laterVars>>

InitGrader ==
    /\ gpc = "start"
    /\ importable \in BOOLEAN
    /\ SUB = "unset"
    /\ ran = <<>>
    /\ outcomes = <<>>
    /\ lastCause = "none"
    /\ testsRun = 0
    /\ failures = <<>>
    /\ errors = <<>>
    /\ details = <<>>
    /\ summary = NoSummary
    /\ propagated = "none"

\* The grader before main() is called; the state of it in the other parts'
\* specifications.
IdleGrader == InitGrader /\ importable

NextGrader ==
    \/ setUpClass
    \/ \E cause \in Causes : RunCheck(cause)
    \/ main

\* --------------------------------------------------------------------------
\* TempEnviron
\* --------------------------------------------------------------------------

\* Python's None: the value of os.environ.get for a variable that is not set,
\* and the override value that asks for the variable to be removed.
None == "<None>"

EnvNames == {"X", "Y"}
EnvStrings == {"", "v0"}

\* The depth to which scopes are nested.
MaxDepth == 2

NoExit == [var |-> None]

\* os.environ.get(var)
EnvGet(env, var) == env[var]

\* __exit__ when it writes back _prev whether or not the variable was set.
TempEnvironExitAlwaysSet(self, env) ==
    [env EXCEPT ![self.var] = IF self.prev = None THEN "" ELSE self.prev]

\* TempEnviron.__enter__: remember the state of the variable, then override.
TempEnvironEnter(var, value, env) ==
    [self |-> [var |-> var, value |-> value,
               prev |-> EnvGet(env, var), had_prev |-> env[var] # None],
     env |-> IF value = None THEN [env EXCEPT ![var] = None]
                             ELSE [env EXCEPT ![var] = value]]

\* TempEnviron.__exit__: put the variable back, or remove it.
TempEnvironExit(self, env) ==
    IF self.had_prev THEN [env EXCEPT ![self.var] = self.prev]
                     ELSE [env EXCEPT ![self.var] = None]

\* with TempEnviron(var, value): ...   (entering the scope)
EnvEnter(var, value) ==
    /\ ~exc
    /\ Len(scopes) < MaxDepth
    /\ LET r == TempEnvironEnter(var, value, environ)
       IN /\ environ' = r.env
          /\ scopes' = Append(scopes, [self |-> r.self, before |-> environ[var]])
    /\ lastExit' = NoExit
    /\ UNCHANGED exc
    /\ UNCHANGED <<graderVars, lockVars, txnVars, laterVars>>

\* The body, or any code around the scopes, writes or removes a variable.
EnvBodyWrite(var, value) ==
    /\ ~exc
    /\ environ[var] # value
    /\ environ' = [environ EXCEPT ![var] = value]
    /\ lastExit' = NoExit
    /\ UNCHANGED <<scopes, exc>>
    /\ UNCHANGED <<graderVars, lockVars, txnVars, laterVars>>

\* The body of the innermost scope raises.
EnvBodyRaise ==
    /\ ~exc
    /\ scopes # <<>>
    /\ exc' = TRUE
    /\ lastExit' = NoExit
    /\ UNCHANGED <<environ, scopes>>
    /\ UNCHANGED <<graderVars, lockVars, txnVars, laterVars>>

\* The innermost scope exits, by the end of its body or by the exception in
\* flight; __exit__ returns False, so the exception goes on to the enclosing
\* scope and is caught by the code around the outermost one.
EnvExit ==
    /\ scopes # <<>>
    /\ LET top == scopes[Len(scopes)]
       IN /\ environ' = TempEnvironExit(top.self, environ)
          /\ lastExit' = [var |-> top.self.var, value |-> top.self.value,
                          before |-> top.before, raised |-> exc]
    /\ scopes' = SubSeq(scopes, 1, Len(scopes) - 1)
    /\ exc' = (exc /\ Len(scopes) > 1)
    /\ UNCHANGED <<graderVars, lockVars, txnVars, laterVars>>

InitEnv ==
    /\ environ \in [EnvNames -> EnvStrings \cup {None}]
    /\ scopes = <<>>
    /\ exc = FALSE
    /\ lastExit = NoExit

IdleEnv == InitEnv /\ environ = [v \in EnvNames |-> None]

NextEnv ==
    \/ \E var \in EnvNames, value \in EnvStrings \cup {None} : EnvEnter(var, value)
    \/ \E var \in EnvNames, value \in EnvStrings \cup {None} : EnvBodyWrite(var, value)
    \/ EnvBodyRaise
    \/ EnvExit

\* --------------------------------------------------------------------------
\* Locked
\* --------------------------------------------------------------------------

Threads == {"t1", "t2", "t3"}
NoThread == "nobody"

\* Locked's timeout=None, and lock.acquire's timeout=-1: wait without limit.
NoTimeout == -1

\* Timeouts are whole ticks of the clock, 0 .. MaxTimeout, or none.
MaxTimeout == 2
Timeouts == (0..MaxTimeout) \cup {NoTimeout}

\* __enter__ when it passes no timeout on to lock.acquire.
LockedAcquireArgNoTimeout(timeout) == NoTimeout

\* __enter__, lines 108-112: the timeout lock.acquire is called with; with
\* no timeout it is the plain blocking acquire().
LockedAcquireArg(timeout) == timeout

\* __exit__ when it clears _acquired without releasing the lock.
LockedExitNoRelease(t) ==
    /\ l_acquired' = [l_acquired EXCEPT ![t] = FALSE]
    /\ UNCHANGED <<locked, holder>>

\* __exit__, lines 117-123: release the lock if this scope acquired it.
LockedExit(t) ==
    IF l_acquired[t]
      THEN /\ locked' = FALSE
           /\ holder' = NoThread
           /\ l_acquired' = [l_acquired EXCEPT ![t] = FALSE]
      ELSE UNCHANGED <<locked, holder, l_acquired>>

\* An __enter__ that goes on into the body whatever acquire returned.
EnterUnchecked(acquired) == "body"

\* __enter__, lines 112-114: TimeoutError unless acquire returned True, so
\* the body starts only with the lock.
EnterChecked(acquired) == IF acquired THEN "body" ELSE "idle"

\* with Locked(lock, timeout): the scope object is made and __enter__ calls
\* lock.acquire, which blocks from here on.
LockEnter(t, timeout) ==
    /\ lpc[t] = "idle"
    /\ lpc' = [lpc EXCEPT ![t] = "waiting"]
    /\ l_timeout' = [l_timeout EXCEPT ![t] = timeout]
    /\ l_acquired' = [l_acquired EXCEPT ![t] = FALSE]
    /\ acqTimeout' = [acqTimeout EXCEPT ![t] = LockedAcquireArg(timeout)]
    /\ waited' = [waited EXCEPT ![t] = 0]
    /\ lresult' = [lresult EXCEPT ![t] = "none"]
    /\ UNCHANGED <<locked, holder>>
    /\ UNCHANGED <<graderVars, envVars, txnVars, laterVars>>

\* lock.acquire returns True: _acquired is set and the body starts.
LockAcquired(t) ==
    /\ lpc[t] = "waiting"
    /\ ~locked
    /\ locked' = TRUE
    /\ holder' = t
    /\ l_acquired' = [l_acquired EXCEPT ![t] = TRUE]
    /\ lpc' = [lpc EXCEPT ![t] = EnterChecked(TRUE)]
    /\ UNCHANGED <<l_timeout, acqTimeout, waited, lresult>>
    /\ UNCHANGED <<graderVars, envVars, txnVars, laterVars>>

\* lock.acquire(timeout=...) returns False at its deadline with the lock
\* still held: __enter__ raises TimeoutError and the body is not entered.
LockTimedOut(t) ==
    /\ lpc[t] = "waiting"
    /\ acqTimeout[t] # NoTimeout
    /\ waited[t] >= acqTimeout[t]
    /\ locked
    /\ l_acquired' = [l_acquired EXCEPT ![t] = FALSE]
    /\ lpc' = [lpc EXCEPT ![t] = EnterChecked(FALSE)]
    /\ lresult' = [lresult EXCEPT ![t] = "TimeoutError"]
    /\ UNCHANGED <<locked, holder, l_timeout, acqTimeout, waited>>
    /\ UNCHANGED <<graderVars, envVars, txnVars, laterVars>>

\* A tick of the clock. A timed acquire never sleeps past its deadline, so
\* the clock waits for every acquire that is due. The count of ticks a
\* thread has waited stops at MaxTimeout + 1.
Tick ==
    /\ \E t \in Threads : lpc[t] = "waiting" /\ waited[t] <= MaxTimeout
    /\ \A t \in Threads :
          (lpc[t] = "waiting" /\ acqTimeout[t] # NoTimeout) => waited[t] < acqTimeout[t]
    /\ waited' = [t \in Threads |->
                    IF lpc[t] = "waiting" /\ waited[t] <= MaxTimeout
                      THEN waited[t] + 1 ELSE waited[t]]
    /\ UNCHANGED <<locked, holder, lpc, l_timeout, l_acquired, acqTimeout, lresult>>
    /\ UNCHANGED <<graderVars, envVars, txnVars, laterVars>>

\* The scope is left, at the end of the body (raised = FALSE) or by an
\* exception raised in it; __exit__ returns False, so the exception goes on.
LockLeave(t, raised) ==
    /\ lpc[t] = "body"
    /\ LockedExit(t)
    /\ lpc' = [lpc EXCEPT ![t] = "idle"]
    /\ lresult' = [lresult EXCEPT ![t] = IF raised THEN "raised" ELSE "exited"]
    /\ UNCHANGED <<l_timeout, acqTimeout, waited>>
    /\ UNCHANGED <<graderVars, envVars, txnVars, laterVars>>

\* lock.acquire(blocking=False) outside any scope: True and the lock is
\* taken if it is free, False otherwise. The result is noted as "reacquired"
\* when it is True and the thread's previous operation was leaving a scope.
LockTryAcquire(t) ==
    /\ lpc[t] = "idle"
    /\ IF ~locked
         THEN /\ locked' = TRUE
              /\ holder' = t
              /\ lpc' = [lpc EXCEPT ![t] = "rawheld"]
              /\ lresult' = [lresult EXCEPT ![t] =
                                IF lresult[t] \in {"exited", "raised"}
                                  THEN "reacquired" ELSE "try_true"]
         ELSE /\ lresult[t] # "try_false"
              /\ lresult' = [lresult EXCEPT ![t] = "try_false"]
              /\ UNCHANGED <<locked, holder, lpc>>
    /\ UNCHANGED <<l_timeout, l_acquired, acqTimeout, waited>>
    /\ UNCHANGED <<graderVars, envVars, txnVars, laterVars>>

\* lock.release() by the thread that took the lock outside a scope.
LockRawRelease(t) ==
    /\ lpc[t] = "rawheld"
    /\ locked' = FALSE
    /\ holder' = NoThread
    /\ lpc' = [lpc EXCEPT ![t] = "idle"]
    /\ lresult' = [lresult EXCEPT ![t] = "none"]
    /\ UNCHANGED <<l_timeout, l_acquired, acqTimeout, waited>>
    /\ UNCHANGED <<graderVars, envVars, txnVars, laterVars>>

InitLock ==
    /\ locked = FALSE
    /\ holder = NoThread
    /\ lpc = [t \in Threads |-> "idle"]
    /\ l_timeout = [t \in Threads |-> NoTimeout]
    /\ l_acquired = [t \in Threads |-> FALSE]
    /\ acqTimeout = [t \in Threads |-> NoTimeout]
    /\ waited = [t \in Threads |-> 0]
    /\ lresult = [t \in Threads |-> "none"]

IdleLock == InitLock

NextLock ==
    \/ \E t \in Threads, timeout \in Timeouts : LockEnter(t, timeout)
    \/ \E t \in Threads : LockAcquired(t)
    \/ \E t \in Threads : LockTimedOut(t)
    \/ Tick
    \/ \E t \in Threads, raised \in BOOLEAN : LockLeave(t, raised)
    \/ \E t \in Threads : LockTryAcquire(t)
    \/ \E t \in Threads : LockRawRelease(t)

\* --------------------------------------------------------------------------
\* autocommit_sqlite
\* --------------------------------------------------------------------------

\* The rows a run can insert.
MaxRows == 2
Rows == 1..MaxRows

ReturnValues == {"r1", "r2"}

\* What the wrapped callable can raise: an exception of class Exception
\* (RuntimeError, sqlite3.Error, ...) or one that is only a BaseException
\* (KeyboardInterrupt, SystemExit).
ExcClasses == {"Exception", "BaseException"}

\* The exception of the wrapped callable, and sqlite3.ProgrammingError as
\* conn.commit() and conn.rollback() raise it on a closed connection.
FuncExc(cls) == [cls |-> cls, from |-> "func"]
ProgrammingError(where) == [cls |-> "Exception", from |-> where]

NoResult == [kind |-> "none"]
Returned(value) == [kind |-> "return", value |-> value]
Raised(e) == [kind |-> "raise", exc |-> e]

\* The handler when it rolls nothing back before re-raising.
HandlerNoRollback(e, db) == [db |-> db, result |-> Raised(e)]

\* Lines 242-247: except Exception: try: conn.rollback() finally: raise.
\* The bare raise re-raises the exception being handled at that point: e
\* itself when rollback returned, the ProgrammingError of rollback when
\* rollback raised it.
Handler(e, db) ==
    IF db.open
      THEN [db |-> [db EXCEPT !.pending = {}], result |-> Raised(e)]
      ELSE [db |-> db, result |-> Raised(ProgrammingError("rollback"))]

\* The wrapper when it returns the result without committing.
AfterReturnNoCommit(value, db) == [db |-> db, result |-> Returned(value)]

\* Lines 239-241, the callable has returned: conn.commit(); return result.
\* A commit that raises is inside the try and goes to the handler.
AfterReturn(value, db) ==
    IF db.open
      THEN [db |-> [db EXCEPT !.committed = db.committed \cup db.pending,
                              !.pending = {}],
            result |-> Returned(value)]
      ELSE Handler(ProgrammingError("commit"), db)

\* Lines 238-247, the callable has raised e: only an Exception is caught.
AfterRaise(e, db) ==
    IF e.cls = "Exception" THEN Handler(e, db)
                           ELSE [db |-> db, result |-> Raised(e)]

Db == [committed |-> committed, pending |-> pending, open |-> connOpen]

\* Code outside the wrapper inserts a row on the connection.
TxnOutsideWrite(row) ==
    /\ tpc = "idle"
    /\ connOpen
    /\ row \notin committed \cup pending
    /\ pending' = pending \cup {row}
    /\ UNCHANGED <<committed, connOpen, tpc, written, atCall, funcDid, callerSees>>
    /\ UNCHANGED <<graderVars, envVars, lockVars, laterVars>>

\* Code outside the wrapper commits (setup_basic_schema, test_08).
TxnOutsideCommit ==
    /\ tpc = "idle"
    /\ connOpen
    /\ pending # {}
    /\ committed' = committed \cup pending
    /\ pending' = {}
    /\ UNCHANGED <<connOpen, tpc, written, atCall, funcDid, callerSees>>
    /\ UNCHANGED <<graderVars, envVars, lockVars, laterVars>>

\* sqlite3.connect after the connection was closed: a new connection to the
\* same file sees the committed rows only.
TxnReconnect ==
    /\ tpc = "idle"
    /\ ~connOpen
    /\ connOpen' = TRUE
    /\ UNCHANGED <<committed, pending, tpc, written, atCall, funcDid, callerSees>>
    /\ UNCHANGED <<graderVars, envVars, lockVars, laterVars>>

\* The wrapper is called and calls the callable.
TxnCall ==
    /\ tpc = "idle"
    /\ tpc' = "in_call"
    /\ written' = {}
    /\ atCall' = [committed |-> committed, pending |-> pending]
    /\ funcDid' = NoResult
    /\ callerSees' = NoResult
    /\ UNCHANGED <<committed, pending, connOpen>>
    /\ UNCHANGED <<graderVars, envVars, lockVars, laterVars>>

\* The callable inserts a row: conn.execute("INSERT ...").
TxnFuncWrite(row) ==
    /\ tpc = "in_call"
    /\ connOpen
    /\ row \notin committed \cup pending
    /\ pending' = pending \cup {row}
    /\ written' = written \cup {row}
    /\ UNCHANGED <<committed, connOpen, tpc, atCall, funcDid, callerSees>>
    /\ UNCHANGED <<graderVars, envVars, lockVars, laterVars>>

\* The connection is closed during the call; what was not committed is lost.
TxnFuncClose ==
    /\ tpc = "in_call"
    /\ connOpen
    /\ connOpen' = FALSE
    /\ pending' = {}
    /\ UNCHANGED <<committed, tpc, written, atCall, funcDid, callerSees>>
    /\ UNCHANGED <<graderVars, envVars, lockVars, laterVars>>

\* The callable returns; the wrapper commits and returns.
TxnFuncReturn(value) ==
    /\ tpc = "in_call"
    /\ LET r == AfterReturn(value, Db)
       IN /\ committed' = r.db.committed
          /\ pending' = r.db.pending
          /\ callerSees' = r.result
    /\ funcDid' = Returned(value)
    /\ tpc' = "idle"
    /\ UNCHANGED <<connOpen, written, atCall>>
    /\ UNCHANGED <<graderVars, envVars, lockVars, laterVars>>

\* The callable raises; the wrapper handles it.
TxnFuncRaise(cls) ==
    /\ tpc = "in_call"
    /\ LET r == AfterRaise(FuncExc(cls), Db)
       IN /\ committed' = r.db.committed
          /\ pending' = r.db.pending
          /\ callerSees' = r.result
    /\ funcDid' = Raised(FuncExc(cls))
    /\ tpc' = "idle"
    /\ UNCHANGED <<connOpen, written, atCall>>
    /\ UNCHANGED <<graderVars, envVars, lockVars, laterVars>>

InitTxn ==
    /\ committed = {}
    /\ pending = {}
    /\ connOpen = TRUE
    /\ tpc = "idle"
    /\ written = {}
    /\ atCall = [committed |-> {}, pending |-> {}]
    /\ funcDid = NoResult
    /\ callerSees = NoResult

IdleTxn == InitTxn

NextTxn ==
    \/ \E row \in Rows : TxnOutsideWrite(row)
    \/ TxnOutsideCommit
    \/ TxnReconnect
    \/ TxnCall
    \/ \E row \in Rows : TxnFuncWrite(row)
    \/ TxnFuncClose
    \/ \E value \in ReturnValues : TxnFuncReturn(value)
    \/ \E cls \in ExcClasses : TxnFuncRaise(cls)

\* --------------------------------------------------------------------------
\* retry_on_operational_error and db_guardrail
\* --------------------------------------------------------------------------

\* The largest retries argument, and the largest backoff (in units of time).
MaxRetries == 4
MaxBackoff == 2

\* retries includes 0 and a negative value.
RetriesArgs == (-1)..MaxRetries
BackoffArgs == 1..MaxBackoff
Wrappers == {"retry", "guardrail"}

\* How one invocation of the wrapped callable ends: it returns, raises
\* sqlite3.OperationalError, raises another Exception, or raises something
\* that is only a BaseException.
FuncEnds == {"ok", "OperationalError", "Exception", "BaseException"}

\* 2 ** n, for n >= 0.
RECURSIVE Pow2(_)
Pow2(n) == IF n <= 0 THEN 1 ELSE 2 * Pow2(n - 1)

\* The exception the callable raised in attempt n.
AttemptExc(cls, n) == [cls |-> cls, attempt |-> n]

\* Events of the trace.
\* value is what the callable returned, None when it raised.
EvCall(n, out, value) ==
    [ev |-> "call", n |-> n, out |-> out, value |-> IF out = "ok" THEN value ELSE None]
EvSleep(n, d) == [ev |-> "sleep", n |-> n, d |-> d]
EvLog(n, what) == [ev |-> "log", n |-> n, what |-> what]

\* An exhaustion test that allows one attempt too many.
ExhaustedOffByOne(n, retries) == n > retries

\* An exhaustion test that ignores retries.
ExhaustedAtCap(n, retries) == n >= MaxRetries + 1

\* Lines 273 and 319: if attempt >= retries.
Exhausted(n, retries) == n >= retries

\* A retry test that retries every Exception.
RetriableAnyException(out) == out \in {"OperationalError", "Exception"}

\* Lines 272 and 318: except sqlite3.OperationalError.
Retriable(out) == out = "OperationalError"

\* A backoff that grows linearly.
SleepForLinear(backoff, n) == backoff * n

\* Lines 277 and 324: backoff * (2 ** (attempt - 1)).
SleepFor(backoff, n) == backoff * Pow2(n - 1)

\* A guardrail that logs its elapsed time once, when the call ends.
GuardrailFinallyOnce(n, ends) == IF ends THEN <<EvLog(n, "elapsed")>> ELSE <<>>

\* Lines 329-333: the finally clause of each pass through the loop.
GuardrailFinally(n, ends) == <<EvLog(n, "elapsed")>>

\* One pass through the loop of retry_on_operational_error._wrapped, lines
\* 268-280: what is appended to the trace, and whether the wrapper ends.
RetryPass(n, out, value, retries, backoff, jitter, j) ==
    IF out = "ok"
      THEN [events |-> <<EvCall(n, out, value)>>, result |-> Returned(value)]
    ELSE IF Retriable(out)
      THEN IF Exhausted(n, retries)
             THEN [events |-> <<EvCall(n, out, value)>>,
                   result |-> Raised(AttemptExc(out, n))]
             ELSE [events |-> <<EvCall(n, out, value),
                                EvSleep(n, SleepFor(backoff, n) + IF jitter THEN j ELSE 0)>>,
                   result |-> NoResult]
      ELSE [events |-> <<EvCall(n, out, value)>>, result |-> Raised(AttemptExc(out, n))]

\* A guardrail that gives up at the first transient error.
GuardrailPassNoRetry(n, out, value, retries, backoff) ==
    [events |-> <<EvCall(n, out, value)>> \o GuardrailFinally(n, TRUE),
     result |-> IF out = "ok" THEN Returned(value) ELSE Raised(AttemptExc(out, n))]

\* One pass through the loop of db_guardrail._wrapped, lines 313-333.
GuardrailPass(n, out, value, retries, backoff) ==
    IF out = "ok"
      THEN [events |-> <<EvCall(n, out, value)>> \o GuardrailFinally(n, TRUE),
            result |-> Returned(value)]
    ELSE IF Retriable(out)
      THEN IF Exhausted(n, retries)
             THEN [events |-> <<EvCall(n, out, value), EvLog(n, "exception")>>
                                \o GuardrailFinally(n, TRUE),
                   result |-> Raised(AttemptExc(out, n))]
             ELSE [events |-> <<EvCall(n, out, value), EvLog(n, "retry"),
                                EvSleep(n, SleepFor(backoff, n))>>
                                \o GuardrailFinally(n, FALSE),
                   result |-> NoResult]
    ELSE IF out = "Exception"
      THEN [events |-> <<EvCall(n, out, value), EvLog(n, "exception")>>
                         \o GuardrailFinally(n, TRUE),
            result |-> Raised(AttemptExc(out, n))]
      ELSE [events |-> <<EvCall(n, out, value)>> \o GuardrailFinally(n, TRUE),
            result |-> Raised(AttemptExc(out, n))]

\* The wrapped function is called: _wrapped starts with attempt = 0.
RetryCall(wrapper, retries, backoff, jitter) ==
    /\ rpc = "idle"
    /\ wrapper = "guardrail" => ~jitter
    /\ rpc' = "running"
    /\ rwrap' = wrapper
    /\ r_retries' = retries
    /\ r_backoff' = backoff
    /\ r_jitter' = jitter
    /\ attempt' = 0
    /\ rtrace' = <<>>
    /\ rresult' = NoResult
    /\ UNCHANGED <<graderVars, envVars, lockVars, txnVars, queryVars, fileVars, decoVars, loaderVars, checkVars,
                   captureVars>>

\* One pass through the loop: attempt += 1, the callable is invoked and ends
\* with out; the wrapper returns, raises, or sleeps and goes round again.
\* j is the value random.uniform(0, backoff) gives.
RetryAttempt(out, value, j) ==
    /\ rpc = "running"
    /\ j <= r_backoff
    /\ LET n == attempt + 1
           r == IF rwrap = "retry"
                  THEN RetryPass(n, out, value, r_retries, r_backoff, r_jitter, j)
                  ELSE GuardrailPass(n, out, value, r_retries, r_backoff)
       IN /\ attempt' = n
          /\ rtrace' = rtrace \o r.events
          /\ rresult' = r.result
          /\ rpc' = IF r.result = NoResult THEN "running" ELSE "done"
    /\ UNCHANGED <<rwrap, r_retries, r_backoff, r_jitter>>
    /\ UNCHANGED <<graderVars, envVars, lockVars, txnVars, queryVars, fileVars, decoVars, loaderVars, checkVars,
                   captureVars>>

InitRetry ==
    /\ rpc = "idle"
    /\ rwrap = "retry"
    /\ r_retries = 0
    /\ r_backoff = 1
    /\ r_jitter = FALSE
    /\ attempt = 0
    /\ rtrace = <<>>
    /\ rresult = NoResult

IdleRetry == InitRetry

NextRetry ==
    \/ \E wrapper \in Wrappers, retries \in RetriesArgs, backoff \in BackoffArgs,
          jitter \in BOOLEAN : RetryCall(wrapper, retries, backoff, jitter)
    \/ \E out \in FuncEnds, value \in ReturnValues, j \in 0..MaxBackoff :
          RetryAttempt(out, value, j)

\* --------------------------------------------------------------------------
\* run_query
\* --------------------------------------------------------------------------

\* The most connections of earlier calls that are followed while still open.
MaxUnclosed == 2

\* The statements: a SELECT of the table, an INSERT of one row, and a
\* statement sqlite3 rejects (no such table).
SqlKinds == {"select", "insert", "bad"}
Sql(kind, row) == [kind |-> kind, row |-> row]

\* The rows of a set as fetchall gives them, in order.
RECURSIVE FetchAll(_)
FetchAll(rows) ==
    IF rows = {} THEN <<>>
    ELSE LET least == CHOOSE r \in rows : \A o \in rows : r <= o
         IN <<least>> \o FetchAll(rows \ {least})

\* Line 217: with sqlite3.connect(db_path) as conn. Leaving the block commits
\* or rolls back; the connection is not closed.
ConnAfterWith == "open"

\* Lines 223-227: finally: cur.close(), an exception of it swallowed.
CursorAfterFinally == "closed"

\* Lines 216-218: the call connects and takes a cursor.
RunQueryCall(kind, row) ==
    /\ qpc \in {"idle", "done"}
    /\ q_unclosed + (IF q_conn = "open" THEN 1 ELSE 0) <= MaxUnclosed
    /\ qpc' = "connected"
    /\ q_sql' = Sql(kind, row)
    /\ q_unclosed' = q_unclosed + (IF q_conn = "open" THEN 1 ELSE 0)
    /\ q_conn' = "open"
    /\ q_cur' = "open"
    /\ q_pending' = {}
    /\ q_executed' = NoResult
    /\ q_result' = NoResult
    /\ UNCHANGED q_committed
    /\ UNCHANGED <<graderVars, envVars, lockVars, txnVars, retryVars, fileVars, decoVars, loaderVars, checkVars,
                   captureVars>>

\* Lines 220-222: cur.execute(sql, params); rows = cur.fetchall().
RunQueryExecute ==
    /\ qpc = "connected"
    /\ qpc' = "executed"
    /\ CASE q_sql.kind = "select" ->
              /\ q_executed' = Returned(FetchAll(q_committed))
              /\ UNCHANGED q_pending
         [] q_sql.kind = "insert" ->
              /\ q_executed' = Returned(<<>>)
              /\ q_pending' = {q_sql.row}
         [] q_sql.kind = "bad" ->
              /\ q_executed' = Raised(FuncExc("OperationalError"))
              /\ UNCHANGED q_pending
    /\ UNCHANGED <<q_sql, q_conn, q_cur, q_committed, q_result, q_unclosed>>
    /\ UNCHANGED <<graderVars, envVars, lockVars, txnVars, retryVars, fileVars, decoVars, loaderVars, checkVars,
                   captureVars>>

\* Lines 223-227 and the end of the with block of line 217: the cursor is
\* closed, the connection commits after a return and rolls back after an
\* exception, and the call returns the rows or raises.
RunQueryExit ==
    /\ qpc = "executed"
    /\ qpc' = "done"
    /\ q_cur' = CursorAfterFinally
    /\ q_conn' = ConnAfterWith
    /\ q_committed' = IF q_executed.kind = "return"
                        THEN q_committed \cup q_pending ELSE q_committed
    /\ q_pending' = {}
    /\ q_result' = q_executed
    /\ UNCHANGED <<q_sql, q_executed, q_unclosed>>
    /\ UNCHANGED <<graderVars, envVars, lockVars, txnVars, retryVars, fileVars, decoVars, loaderVars, checkVars,
                   captureVars>>

\* The interpreter finalises a connection object nothing refers to any more,
\* which closes it: some time after the call, or never.
QueryCollect ==
    /\ \/ /\ qpc = "done" /\ q_conn = "open"
          /\ q_conn' = "closed"
          /\ UNCHANGED q_unclosed
       \/ /\ q_unclosed > 0
          /\ q_unclosed' = q_unclosed - 1
          /\ UNCHANGED q_conn
    /\ UNCHANGED <<qpc, q_sql, q_cur, q_committed, q_pending, q_executed, q_result>>
    /\ UNCHANGED <<graderVars, envVars, lockVars, txnVars, retryVars, fileVars, decoVars, loaderVars, checkVars,
                   captureVars>>

InitQuery ==
    /\ qpc = "idle"
    /\ q_sql = Sql("select", 1)
    /\ q_conn = "none"
    /\ q_cur = "none"
    /\ q_committed = {}
    /\ q_pending = {}
    /\ q_executed = NoResult
    /\ q_result = NoResult
    /\ q_unclosed = 0

IdleQuery == InitQuery

NextQuery ==
    \/ \E kind \in SqlKinds, row \in Rows : RunQueryCall(kind, row)
    \/ RunQueryExecute
    \/ RunQueryExit
    \/ QueryCollect

\* --------------------------------------------------------------------------
\* FileOpenerCM and file_opener_cm
\* --------------------------------------------------------------------------

\* The most chunks a file holds.
MaxChunks == 2

FileForms == {"class", "generator"}
FileModes == {"r", "w", "a"}

\* The exception close() raises when it cannot flush.
CloseError == [cls |-> "OSError", from |-> "close"]

\* The body ended without an exception.
BodyNormal == Returned(None)

\* FileOpenerCM.__exit__, lines 39-46: close() inside try/finally, then
\* return False. An exception of close() leaves __exit__ and takes the place
\* of the one of the body.
FileOpenerCMExit(body, closeFails) ==
    [handle |-> "closed",
     caller |-> IF closeFails THEN Raised(CloseError) ELSE body]

\* file_opener_cm, lines 57-64: finally: fh.close() with an Exception of it
\* swallowed; the body's exception goes on through the generator.
file_opener_cm(body, closeFails) ==
    [handle |-> "closed", caller |-> body]

\* Lines 35-37 and 56-58: open() and the handle given to the body.
FileEnter(form, mode, closeFails) ==
    /\ fpc \in {"idle", "exited"}
    /\ fpc' = "body"
    /\ f_form' = form
    /\ f_mode' = mode
    /\ f_closeFails' = closeFails
    /\ f_handle' = "open"
    /\ f_buffered' = 0
    /\ f_content' = IF mode = "w" THEN 0 ELSE f_content
    /\ f_body' = NoResult
    /\ f_caller' = NoResult
    /\ UNCHANGED <<graderVars, envVars, lockVars, txnVars, retryVars, queryVars, decoVars, loaderVars, checkVars,
                   captureVars>>

\* The body writes a chunk to the handle.
FileBodyWrite ==
    /\ fpc = "body"
    /\ f_mode \in {"w", "a"}
    /\ f_content + f_buffered < MaxChunks
    /\ f_buffered' = f_buffered + 1
    /\ UNCHANGED <<fpc, f_form, f_mode, f_closeFails, f_handle, f_content, f_body, f_caller>>
    /\ UNCHANGED <<graderVars, envVars, lockVars, txnVars, retryVars, queryVars, decoVars, loaderVars, checkVars,
                   captureVars>>

\* The body ends, normally or with an exception of class cls, and the scope
\* is left. close() writes what is buffered unless it fails.
FileExit(raises, cls) ==
    /\ fpc = "body"
    /\ LET body == IF raises THEN Raised(FuncExc(cls)) ELSE BodyNormal
           r == IF f_form = "class"
                  THEN FileOpenerCMExit(body, f_closeFails)
                  ELSE file_opener_cm(body, f_closeFails)
       IN /\ f_body' = body
          /\ f_handle' = r.handle
          /\ f_caller' = r.caller
          /\ f_content' = IF r.handle = "closed" /\ ~f_closeFails
                            THEN f_content + f_buffered ELSE f_content
    /\ fpc' = "exited"
    /\ f_buffered' = 0
    /\ UNCHANGED <<f_form, f_mode, f_closeFails>>
    /\ UNCHANGED <<graderVars, envVars, lockVars, txnVars, retryVars, queryVars, decoVars, loaderVars, checkVars,
                   captureVars>>

InitFile ==
    /\ fpc = "idle"
    /\ f_form = "class"
    /\ f_mode = "r"
    /\ f_closeFails = FALSE
    /\ f_handle = "none"
    /\ f_buffered = 0
    /\ f_content = 0
    /\ f_body = NoResult
    /\ f_caller = NoResult

IdleFile == InitFile

NextFile ==
    \/ \E form \in FileForms, mode \in FileModes, closeFails \in BOOLEAN :
          FileEnter(form, mode, closeFails)
    \/ FileBodyWrite
    \/ \E raises \in BOOLEAN, cls \in ExcClasses : FileExit(raises, cls)

\* --------------------------------------------------------------------------
\* timer and catch_and_log
\* --------------------------------------------------------------------------

\* The most calls of one wrapper that are followed.
MaxCalls == 2

Decorators == {"timer", "catch_and_log"}
FuncNames == {"f", "g"}
Levels == {"DEBUG", "INFO", "WARNING"}

\* Where an entry goes: the logger that was supplied, the logger
\* catch_and_log looks up by name when none was, standard output.
SuppliedLogger == "logger"
DefaultLogger == "submission.catch_and_log"
Stdout == "stdout"

\* Line 160: lvl = level if level is not None else logging.INFO.
TimerLevel(level) == IF level = None THEN "INFO" ELSE level

\* A timer that reports only the calls that return.
TimerFinallyOnReturn(func, fname, logger, level) ==
    IF func.kind = "return"
      THEN <<[dest |-> Stdout, level |-> None, text |-> <<fname, "elapsed_ms">>]>>
      ELSE <<>>

\* timer._wrapped, lines 167-173: the finally clause, entered when the
\* callable returns and when it raises. log.log(lvl, msg) if a logger was
\* supplied, print(msg) otherwise.
TimerFinally(func, fname, logger, level) ==
    IF logger
      THEN <<[dest |-> SuppliedLogger, level |-> TimerLevel(level),
              text |-> <<fname, "elapsed_ms">>]>>
      ELSE <<[dest |-> Stdout, level |-> None, text |-> <<fname, "elapsed_ms">>]>>

\* A handler that catches everything.
CaughtBaseException(cls) == cls \in {"Exception", "BaseException"}

\* Line 195: except Exception.
Caught(cls) == cls = "Exception"

\* catch_and_log._wrapped, lines 192-200: what is logged and what the caller
\* gets. log.exception records the exception with its class and message.
CatchAndLog(func, fname, logger, reraise) ==
    IF func.kind = "raise" /\ Caught(func.exc.cls)
      THEN [emitted |-> <<[dest |-> IF logger THEN SuppliedLogger ELSE DefaultLogger,
                           level |-> "ERROR",
                           text |-> <<"Exception in", fname>>,
                           exc |-> func.exc]>>,
            caller |-> IF reraise THEN func ELSE Returned(None)]
      ELSE [emitted |-> <<>>, caller |-> func]

\* The decorator is applied to a callable: functools.wraps gives the wrapper
\* the callable's __name__ (lines 162 and 191).
Decorate(deco, fname, logger, level, reraise) ==
    /\ dpc \in {"idle", "decorated", "done"}
    /\ deco = "timer" => reraise
    /\ deco = "catch_and_log" => level = None
    /\ dpc' = "decorated"
    /\ d_deco' = deco
    /\ d_fname' = fname
    /\ d_wname' = fname
    /\ d_logger' = logger
    /\ d_level' = level
    /\ d_reraise' = reraise
    /\ d_calls' = 0
    /\ d_emitted' = <<>>
    /\ d_last' = <<>>
    /\ d_func' = NoResult
    /\ d_caller' = NoResult
    /\ UNCHANGED <<graderVars, envVars, lockVars, txnVars, retryVars, queryVars, fileVars, loaderVars, checkVars,
                   captureVars>>

\* One call of the wrapper: the callable returns value or raises an
\* exception of class cls.
DecoCall(raises, cls, value) ==
    /\ dpc \in {"decorated", "done"}
    /\ d_calls < MaxCalls
    /\ LET func == IF raises THEN Raised(FuncExc(cls)) ELSE Returned(value)
           r == IF d_deco = "timer"
                  THEN [emitted |-> TimerFinally(func, d_fname, d_logger, d_level),
                        caller |-> func]
                  ELSE CatchAndLog(func, d_fname, d_logger, d_reraise)
       IN /\ d_func' = func
          /\ d_last' = r.emitted
          /\ d_emitted' = d_emitted \o r.emitted
          /\ d_caller' = r.caller
    /\ dpc' = "done"
    /\ d_calls' = d_calls + 1
    /\ UNCHANGED <<d_deco, d_fname, d_wname, d_logger, d_level, d_reraise>>
    /\ UNCHANGED <<graderVars, envVars, lockVars, txnVars, retryVars, queryVars, fileVars, loaderVars, checkVars,
                   captureVars>>

InitDeco ==
    /\ dpc = "idle"
    /\ d_deco = "timer"
    /\ d_fname = "f"
    /\ d_wname = "f"
    /\ d_logger = FALSE
    /\ d_level = None
    /\ d_reraise = TRUE
    /\ d_calls = 0
    /\ d_emitted = <<>>
    /\ d_last = <<>>
    /\ d_func = NoResult
    /\ d_caller = NoResult

IdleDeco == InitDeco

NextDeco ==
    \/ \E deco \in Decorators, fname \in FuncNames, logger \in BOOLEAN,
          level \in Levels \cup {None}, reraise \in BOOLEAN :
          Decorate(deco, fname, logger, level, reraise)
    \/ \E raises \in BOOLEAN, cls \in ExcClasses, value \in ReturnValues :
          DecoCall(raises, cls, value)

\* --------------------------------------------------------------------------
\* The command line and the import of the candidate module
\* --------------------------------------------------------------------------

\* The most arguments after the script name.
MaxArgs == 2

Script == "autograder-assessment-2.py"
Modules == {"submission", "other"}
Flags == {"-q", "-v", "-k"}
Args == Modules \cup Flags \cup {"nosuchmod", "submission.py"}

\* Command lines: the script followed by at most MaxArgs arguments.
CommandLines ==
    UNION {{<<Script>> \o rest : rest \in [1..n -> Args]} : n \in 0..MaxArgs}

\* sys.argv[1]; sequences here count from 1, so it is the second element.
Argv1(argv) == argv[2]

\* str.endswith(".py") on the arguments that occur.
EndsWithPy(a) == a = "submission.py"

\* Line 107: mod_name = sys.argv[1] if len(sys.argv) > 1 and
\* sys.argv[1].endswith(".py") is False and sys.argv[1] != "-k" else None.
ModName107(argv) ==
    IF Len(argv) > 1 /\ EndsWithPy(Argv1(argv)) = FALSE /\ Argv1(argv) # "-k"
      THEN Argv1(argv) ELSE None

\* Lines 109-110: if len(sys.argv) > 1 and mod_name is None and
\* sys.argv[1] not in ("-q", "-v"): mod_name = sys.argv[1].
ModName109(argv, name) ==
    IF Len(argv) > 1 /\ name = None /\ Argv1(argv) \notin {"-q", "-v"}
      THEN Argv1(argv) ELSE name

\* importlib.import_module(name): the module if it can be imported.
ImportModule(name, mods) ==
    IF name \in mods
      THEN [module |-> name, error |-> None]
      ELSE [module |-> None, error |-> "ModuleNotFoundError"]

\* import_submission, lines 46-55: the named module, or 'submission' when
\* no name is given, with an ImportError in place of whatever its import
\* raises.
import_submission(module_name, mods) ==
    IF module_name # None
      THEN ImportModule(module_name, mods)
      ELSE IF ImportModule("submission", mods).error = None
             THEN ImportModule("submission", mods)
             ELSE [module |-> None, error |-> "ImportError"]

\* setUpClass, lines 107-110: the module name is taken from the command line.
LoaderModName ==
    /\ mpc = "start"
    /\ mpc' = "named"
    /\ mod_name' = ModName109(sys_argv, ModName107(sys_argv))
    /\ UNCHANGED <<sys_argv, installed, m_loaded, m_error>>
    /\ UNCHANGED <<graderVars, envVars, lockVars, txnVars, retryVars, queryVars, fileVars,
                   decoVars, checkVars, captureVars>>

\* setUpClass, line 111: cls.SUB = import_submission(mod_name).
LoaderImport ==
    /\ mpc = "named"
    /\ mpc' = "imported"
    /\ LET r == import_submission(mod_name, installed)
       IN m_loaded' = r.module /\ m_error' = r.error
    /\ UNCHANGED <<sys_argv, installed, mod_name>>
    /\ UNCHANGED <<graderVars, envVars, lockVars, txnVars, retryVars, queryVars, fileVars,
                   decoVars, checkVars, captureVars>>

\* Any command line, with any of the modules present.
InitLoader ==
    /\ mpc = "start"
    /\ sys_argv \in CommandLines
    /\ installed \in SUBSET Modules
    /\ mod_name = None
    /\ m_loaded = None
    /\ m_error = None

IdleLoader ==
    /\ mpc = "start"
    /\ sys_argv = <<Script>>
    /\ installed = Modules
    /\ mod_name = None
    /\ m_loaded = None
    /\ m_error = None

NextLoader ==
    \/ LoaderModName
    \/ LoaderImport

\* --------------------------------------------------------------------------
\* What the checks create and tear down
\* --------------------------------------------------------------------------

Resource(kind, owner) == [kind |-> kind, owner |-> owner]

\* What a check creates once its capability is found to be there: the
\* temporary file of test_01 and test_02, the environment override of
\* test_03, the lock of test_04, the LogCapture handler of test_07 and
\* test_11, the TempSQLite (connection and directory) of test_08 and test_09.
Creates(test) ==
    CASE test \in {1, 2}  -> {"tempfile"}
      [] test = 3         -> {"environ"}
      [] test = 4         -> {"lock"}
      [] test \in {7, 11} -> {"handler"}
      [] test \in {8, 9}  -> {"tempdb"}
      [] OTHER            -> {}

\* What the body of a check opens through the module it grades: test_08
\* calls run_query, whose connection stays open.
OpensInBody(test) == IF test = 8 THEN {"queryconn"} ELSE {}

\* What a check has torn down when it ends, whatever its outcome: os.remove
\* in the finally of test_01 and test_02, the restore in the finally of
\* test_03, the with block of test_04, db.close() in the finally of test_08
\* and test_09. test_07 and test_11 have nothing for their LogCapture.
TornDown(test) ==
    CASE test \in {1, 2}  -> {"tempfile"}
      [] test = 3         -> {"environ"}
      [] test = 4         -> {"lock"}
      [] test \in {8, 9}  -> {"tempdb"}
      [] OTHER            -> {}

\* LogCapture.__init__, lines 62-72: the handlers already on the logger are
\* removed and the new one is added.
LogCaptureInit(live, owner) ==
    {r \in live : r.kind # "handler"} \cup {Resource("handler", owner)}

\* The runner starts the next check.
CheckStart ==
    /\ cpc = "between"
    /\ c_test < NumChecks
    /\ cpc' = "started"
    /\ c_test' = c_test + 1
    /\ c_cause' = "none"
    /\ UNCHANGED c_live
    /\ UNCHANGED <<graderVars, envVars, lockVars, txnVars, retryVars, queryVars, fileVars,
                   decoVars, loaderVars, captureVars>>

\* The check looks for its capability (the hasattr assertion); if it is
\* there the check creates what it needs, and if not it fails at once.
CheckCreate(has) ==
    /\ cpc = "started"
    /\ IF has
         THEN /\ cpc' = "body"
              /\ c_live' = IF "handler" \in Creates(c_test)
                             THEN LogCaptureInit(c_live, c_test)
                             ELSE c_live \cup {Resource(k, c_test) : k \in Creates(c_test)}
              /\ UNCHANGED c_cause
         ELSE /\ cpc' = "finishing"
              /\ c_cause' = "missing"
              /\ UNCHANGED c_live
    /\ UNCHANGED c_test
    /\ UNCHANGED <<graderVars, envVars, lockVars, txnVars, retryVars, queryVars, fileVars,
                   decoVars, loaderVars, captureVars>>

\* The body of the check runs and ends: it passes, an assertion fails, or
\* something else is raised.
CheckBody(cause) ==
    /\ cpc = "body"
    /\ cpc' = "finishing"
    /\ c_cause' = cause
    /\ c_live' = c_live \cup {Resource(k, c_test) : k \in OpensInBody(c_test)}
    /\ UNCHANGED c_test
    /\ UNCHANGED <<graderVars, envVars, lockVars, txnVars, retryVars, queryVars, fileVars,
                   decoVars, loaderVars, captureVars>>

\* The check ends: its finally clauses and with blocks have run.
CheckEnd ==
    /\ cpc = "finishing"
    /\ cpc' = "between"
    /\ c_live' = {r \in c_live : ~(r.owner = c_test /\ r.kind \in TornDown(c_test))}
    /\ UNCHANGED <<c_test, c_cause>>
    /\ UNCHANGED <<graderVars, envVars, lockVars, txnVars, retryVars, queryVars, fileVars,
                   decoVars, loaderVars, captureVars>>

\* The interpreter finalises the connection run_query left behind, some time
\* after the call, or never.
CheckCollect ==
    /\ cpc # "body"
    /\ \E r \in c_live :
          /\ r.kind = "queryconn"
          /\ c_live' = c_live \ {r}
    /\ UNCHANGED <<cpc, c_test, c_cause>>
    /\ UNCHANGED <<graderVars, envVars, lockVars, txnVars, retryVars, queryVars, fileVars,
                   decoVars, loaderVars, captureVars>>

InitChecks ==
    /\ cpc = "between"
    /\ c_test = 0
    /\ c_cause = "none"
    /\ c_live = {}

IdleChecks == InitChecks

NextChecks ==
    \/ CheckStart
    \/ \E has \in BOOLEAN : CheckCreate(has)
    \/ \E cause \in Causes \ {"missing"} : CheckBody(cause)
    \/ CheckEnd
    \/ CheckCollect

\* --------------------------------------------------------------------------
\* LogCapture
\* --------------------------------------------------------------------------

\* The most LogCapture instances and the most texts emitted.
MaxCaptures == 3
MaxEmits == 3

\* The order of the levels of the logging module.
LevelNo(level) ==
    CASE level = "DEBUG" -> 1 [] level = "INFO" -> 2 [] level = "WARNING" -> 3

\* A handler some other code put on the logger before any LogCapture.
ForeignHandler == 0

NoFlush == [inst |-> 0, text |-> <<>>]

\* A constructor that adds its handler and removes none.
AddHandlerOnly(attached, own) == Append(attached, own)

\* LogCapture.__init__, lines 69-72: every handler on the logger is removed,
\* then the instance's own is added.
RemoveThenAddHandler(attached, own) == <<own>>

\* LogCapture(name, level), lines 61-72.
LogCaptureNew(level) ==
    /\ Len(instances) < MaxCaptures
    /\ LET own == Len(instances) + 1
       IN /\ instances' = Append(instances, [level |-> level, before |-> emitted])
          /\ streams' = Append(streams, <<>>)
          /\ handlers' = RemoveThenAddHandler(handlers, own)
    /\ loggerLevel' = level
    /\ UNCHANGED <<emitted, flushed>>
    /\ UNCHANGED <<graderVars, envVars, lockVars, txnVars, retryVars, queryVars, fileVars,
                   decoVars, loaderVars, checkVars>>

\* A text is emitted to the logger at a level: the logger hands it to each
\* attached handler if its own level allows, and a handler writes it to its
\* stream if the handler's level allows. The texts are numbered as emitted.
LogEmit(level) ==
    /\ emitted < MaxEmits
    /\ emitted' = emitted + 1
    /\ streams' = [i \in 1..Len(streams) |->
                     IF /\ \E k \in 1..Len(handlers) : handlers[k] = i
                        /\ LevelNo(level) >= LevelNo(loggerLevel)
                        /\ LevelNo(level) >= LevelNo(instances[i].level)
                       THEN Append(streams[i], emitted + 1)
                       ELSE streams[i]]
    /\ UNCHANGED <<handlers, loggerLevel, instances, flushed>>
    /\ UNCHANGED <<graderVars, envVars, lockVars, txnVars, retryVars, queryVars, fileVars,
                   decoVars, loaderVars, checkVars>>

\* flush_text of an instance, lines 74-76: the contents of its stream.
LogFlushText(inst) ==
    /\ inst \in 1..Len(instances)
    /\ flushed' = [inst |-> inst, text |-> streams[inst]]
    /\ UNCHANGED <<handlers, loggerLevel, instances, streams, emitted>>
    /\ UNCHANGED <<graderVars, envVars, lockVars, txnVars, retryVars, queryVars, fileVars,
                   decoVars, loaderVars, checkVars>>

\* The logger before any LogCapture, with or without a handler of its own.
InitCapture ==
    /\ handlers \in {<<>>, <<ForeignHandler>>}
    /\ loggerLevel \in Levels
    /\ instances = <<>>
    /\ streams = <<>>
    /\ emitted = 0
    /\ flushed = NoFlush

IdleCapture ==
    /\ handlers = <<>>
    /\ loggerLevel = "WARNING"
    /\ instances = <<>>
    /\ streams = <<>>
    /\ emitted = 0
    /\ flushed = NoFlush

NextCapture ==
    \/ \E level \in Levels : LogCaptureNew(level)
    \/ \E level \in Levels : LogEmit(level)
    \/ \E inst \in 1..MaxCaptures : LogFlushText(inst)

\* --------------------------------------------------------------------------
\* Specifications
\* --------------------------------------------------------------------------

\* The parts added after the first four, all idle.
IdleLater == IdleRetry /\ IdleQuery /\ IdleFile /\ IdleDeco /\ IdleLoader /\ IdleChecks /\ IdleCapture

\* The grader: main() on a candidate module that may or may not import.
InitSpecGrader == InitGrader /\ IdleEnv /\ IdleLock /\ IdleTxn /\ IdleLater
SpecGrader == InitSpecGrader /\ [][NextGrader]_vars

\* TempEnviron scopes over any initial environment.
InitSpecEnv == InitEnv /\ IdleGrader /\ IdleLock /\ IdleTxn /\ IdleLater
SpecEnv == InitSpecEnv /\ [][NextEnv]_vars

\* Threads using Locked scopes and raw acquires on one lock.
InitSpecLock == InitLock /\ IdleGrader /\ IdleEnv /\ IdleTxn /\ IdleLater
SpecLock == InitSpecLock /\ [][NextLock]_vars

\* Calls through autocommit_sqlite on one connection.
InitSpecTxn == InitTxn /\ IdleGrader /\ IdleEnv /\ IdleLock /\ IdleLater
SpecTxn == InitSpecTxn /\ [][NextTxn]_vars

\* Calls through retry_on_operational_error and db_guardrail.
InitSpecRetry ==
    /\ InitRetry /\ IdleGrader /\ IdleEnv /\ IdleLock /\ IdleTxn /\ IdleQuery /\ IdleFile /\ IdleDeco
    /\ IdleLoader /\ IdleChecks /\ IdleCapture
SpecRetry == InitSpecRetry /\ [][NextRetry]_vars

\* The same, with the loop of a call that has started going on: every
\* invocation of the callable ends, and the wrapper then takes its next step.
RetryStep == \E out \in FuncEnds, value \in ReturnValues, j \in 0..MaxBackoff :
                 RetryAttempt(out, value, j)
SpecRetryFair == SpecRetry /\ WF_vars(RetryStep)

\* Calls of run_query on one database file.
InitSpecQuery ==
    /\ InitQuery /\ IdleGrader /\ IdleEnv /\ IdleLock /\ IdleTxn /\ IdleRetry /\ IdleFile /\ IdleDeco
    /\ IdleLoader /\ IdleChecks /\ IdleCapture
SpecQuery == InitSpecQuery /\ [][NextQuery]_vars

\* Scopes of FileOpenerCM and file_opener_cm on one file.
InitSpecFile ==
    /\ InitFile /\ IdleGrader /\ IdleEnv /\ IdleLock /\ IdleTxn /\ IdleRetry /\ IdleQuery /\ IdleDeco
    /\ IdleLoader /\ IdleChecks /\ IdleCapture
SpecFile == InitSpecFile /\ [][NextFile]_vars

\* Callables wrapped by timer and by catch_and_log.
InitSpecDeco ==
    /\ InitDeco /\ IdleGrader /\ IdleEnv /\ IdleLock /\ IdleTxn /\ IdleRetry /\ IdleQuery /\ IdleFile
    /\ IdleLoader /\ IdleChecks /\ IdleCapture
SpecDeco == InitSpecDeco /\ [][NextDeco]_vars

\* setUpClass choosing and importing the candidate module.
InitSpecLoader ==
    /\ InitLoader /\ IdleGrader /\ IdleEnv /\ IdleLock /\ IdleTxn
    /\ IdleRetry /\ IdleQuery /\ IdleFile /\ IdleDeco /\ IdleChecks /\ IdleCapture
SpecLoader == InitSpecLoader /\ [][NextLoader]_vars

\* The battery, followed for what its checks create and tear down.
InitSpecChecks ==
    /\ InitChecks /\ IdleGrader /\ IdleEnv /\ IdleLock /\ IdleTxn
    /\ IdleRetry /\ IdleQuery /\ IdleFile /\ IdleDeco /\ IdleLoader /\ IdleCapture
SpecChecks == InitSpecChecks /\ [][NextChecks]_vars

\* LogCapture instances on one logger name, texts emitted to the logger.
InitSpecCapture ==
    /\ InitCapture /\ IdleGrader /\ IdleEnv /\ IdleLock /\ IdleTxn
    /\ IdleRetry /\ IdleQuery /\ IdleFile /\ IdleDeco /\ IdleLoader /\ IdleChecks
SpecCapture == InitSpecCapture /\ [][NextCapture]_vars

\* --------------------------------------------------------------------------
\* Properties of the grader
\* --------------------------------------------------------------------------

Count(seq, x) == Cardinality({i \in 1..Len(seq) : seq[i] = x})
Abs(x) == IF x < 0 THEN -x ELSE x
NumPass == Count(outcomes, "pass")
Loaded == SUB = "module"

\* C1: once the module is loaded, the checks run are always test_01, test_02,
\* ... in suite order, each once; while the battery is running the next
\* check is still to come whatever the earlier outcomes were, and when the
\* runner returns all 11 have been executed.
C1_EveryCheckRuns ==
    /\ ran = [i \in 1..Len(ran) |-> Suite[i]]
    /\ Len(outcomes) = Len(ran)
    /\ (Loaded /\ gpc = "running") => Len(ran) < NumChecks
    /\ (Loaded /\ gpc \in {"finished", "done"}) => ran = Suite

\* A run where the first check failed an assertion, the second raised and a
\* later one had its capability missing, and the whole battery still ran.
C1_Witness ==
    /\ gpc = "done" /\ Loaded /\ ran = Suite
    /\ outcomes[1] = "assert" /\ outcomes[2] = "exception"
    /\ lastCause = "missing" /\ outcomes[10] = "pass"

\* C2: the score of every emitted report is within [0, 100] (in hundredths).
C2_ScoreInRange ==
    summary.emitted => (summary.score >= 0 /\ summary.score <= 10000)

\* The report of a run where no test ran and the tally of passed is negative.
C2_Witness ==
    /\ summary.emitted /\ summary.tests = 0 /\ summary.passed < 0
    /\ summary.score = 0

\* C3 as stated: the score is exactly 100 x passed / total (0 when total is 0).
C3_ScoreExact ==
    summary.emitted =>
        IF summary.tests # 0
          THEN summary.score * summary.tests = 10000 * summary.passed
          ELSE summary.score = 0

\* C3 (amended): the score is 100 x passed / total rounded to the nearest
\* hundredth (0 when total is 0), where passed is the number of checks whose
\* body passed; it is non-decreasing in passed, 100 exactly when all 11
\* checks passed and 0 exactly when none passed.
C3_ScoreRounded ==
    summary.emitted =>
        /\ summary.tests = 0 => summary.score = 0
        /\ summary.tests # 0 =>
               /\ summary.passed = NumPass
               /\ 2 * Abs(summary.score * summary.tests - 10000 * NumPass) <= summary.tests
               /\ \A a, b \in 0..summary.tests :
                      a <= b => Score(a, summary.tests) <= Score(b, summary.tests)
        /\ (summary.score = 10000) <=> (NumPass = NumChecks)
        /\ (summary.score = 0) <=> (NumPass = 0)

\* A report whose score is not a whole multiple: 6 of 11 gives 54.55.
C3_Witness ==
    summary.emitted /\ summary.tests = NumChecks /\ NumPass = 6 /\ summary.score = 5455

\* C4: assertion failures and other exceptions are recorded apart (failures
\* against errors, "failed" against "error" records) and counted apart in
\* the report, and the score is the one of the number of passed checks,
\* whatever the split of the others between failed and errored.
C4_FailureErrorSplit ==
    /\ \A i \in 1..Len(outcomes) :
          LET d == details[i + (Len(details) - Len(outcomes))]
          IN /\ outcomes[i] = "pass" => d.status = "passed"
             /\ outcomes[i] = "assert" => (d.status = "failed" /\ d.test \in {failures[j] : j \in 1..Len(failures)})
             /\ outcomes[i] = "exception" => (d.status = "error" /\ d.test \in {errors[j] : j \in 1..Len(errors)})
    /\ {failures[j] : j \in 1..Len(failures)} \cap {errors[j] : j \in 1..Len(errors)} = {}
    /\ (summary.emitted /\ Loaded) =>
          /\ summary.failed = Count(outcomes, "assert")
          /\ summary.errored = Count(outcomes, "exception")
          /\ \A f \in 0..(NumChecks - NumPass) :
                 summary.score = Score(NumChecks - f - (NumChecks - NumPass - f), NumChecks)

\* A report with both kinds of non-passed checks.
C4_Witness ==
    /\ summary.emitted /\ Loaded
    /\ summary.failed = 2 /\ summary.errored = 3 /\ summary.passed = 6

\* C5 as stated: when the module cannot be imported no check runs, nothing
\* is scored or emitted, and the import error leaves main().
C5_LoadFailureAborts ==
    ~importable =>
        /\ ran = <<>>
        /\ summary = NoSummary
        /\ gpc = "done" => propagated = "ImportError"

\* The part of C5 the code keeps: no check is started after a failed import.
C5_NoCheckAfterLoadFailure ==
    ~importable => (ran = <<>> /\ testsRun = 0 /\ SUB = "unset")

C5_Witness ==
    ~importable /\ gpc = "done" /\ summary.emitted

\* --------------------------------------------------------------------------
\* Properties of TempEnviron
\* --------------------------------------------------------------------------

\* C6: the step that enters a scope leaves the variable reading as the
\* override value, and the step that exits a scope, at the end of the body or
\* on an exception, leaves the variable exactly as it was before that scope
\* was entered: not set if it was not set, its earlier value otherwise. No
\* other variable is touched by either step.
C6_EnvRestored ==
    [][ /\ Len(scopes') > Len(scopes) =>
            LET top == scopes'[Len(scopes')]
            IN /\ EnvGet(environ', top.self.var) = top.self.value
               /\ \A v \in EnvNames \ {top.self.var} : environ'[v] = environ[v]
        /\ Len(scopes') < Len(scopes) =>
            LET top == scopes[Len(scopes)]
            IN /\ environ'[top.self.var] = top.before
               /\ \A v \in EnvNames \ {top.self.var} : environ'[v] = environ[v]
      ]_vars

\* A scope over a variable that was not set, overridden with a string, left
\* by an exception after the body had written the variable: not set again.
C6_Witness ==
    /\ lastExit # NoExit
    /\ lastExit.var = "X" /\ lastExit.before = None /\ lastExit.value = "v0"
    /\ lastExit.raised
    /\ environ["X"] = None
    /\ scopes = <<>>

\* --------------------------------------------------------------------------
\* Properties of Locked
\* --------------------------------------------------------------------------

\* C7: a thread in the body of a Locked scope holds the lock; the step that
\* leaves the scope, at the end of the body or by an exception, leaves the
\* lock free; and a non-blocking acquire the thread makes next, the lock not
\* having been taken by another thread, returns True.
C7_LockHeldThenFree ==
    [][ \A t \in Threads :
          /\ lpc'[t] = "body" => (locked' /\ holder' = t /\ l_acquired'[t])
          /\ (lpc[t] = "body" /\ lpc'[t] # "body") =>
                (~locked' /\ holder' = NoThread /\ ~l_acquired'[t])
          /\ ( /\ lpc[t] = "idle" /\ lresult[t] \in {"exited", "raised"}
               /\ ~locked /\ lresult'[t] # lresult[t] /\ lpc'[t] # "waiting" ) =>
                (lresult'[t] = "reacquired" /\ holder' = t)
      ]_vars

\* A thread that left its scope and then took the lock without blocking.
C7_Witness ==
    /\ lresult["t1"] = "reacquired" /\ lpc["t1"] = "rawheld"
    /\ locked /\ holder = "t1"

\* C8: a thread entering a scope with a timeout never waits for the lock
\* longer than the timeout; when the timeout has run out and the lock is still
\* held, the entry ends with TimeoutError, the thread being outside the scope
\* and not having acquired; TimeoutError only ever ends a wait, so the body
\* has not run.
C8_TimeoutRaises ==
    [][ \A t \in Threads :
          /\ (lpc'[t] = "waiting" /\ l_timeout'[t] # NoTimeout) =>
                waited'[t] <= l_timeout'[t]
          /\ ( /\ lpc[t] = "waiting" /\ l_timeout[t] # NoTimeout
               /\ waited[t] >= l_timeout[t] /\ locked /\ lpc'[t] # "waiting" ) =>
                (lpc'[t] = "idle" /\ lresult'[t] = "TimeoutError" /\ ~l_acquired'[t])
          /\ (lresult'[t] = "TimeoutError" /\ lresult[t] # "TimeoutError") =>
                (lpc[t] = "waiting" /\ lpc'[t] = "idle" /\ holder' # t)
      ]_vars

\* A thread whose timeout of one tick ran out while the other held the lock.
C8_Witness ==
    /\ lresult["t1"] = "TimeoutError" /\ l_timeout["t1"] = 1 /\ waited["t1"] = 1
    /\ lpc["t1"] = "idle" /\ locked /\ holder = "t2"

\* --------------------------------------------------------------------------
\* Properties of autocommit_sqlite
\* --------------------------------------------------------------------------

\* The rows a query sees after the step: on the connection of the call, and
\* on any other connection to the same file.
VisibleSame(c, p, open) == IF open THEN c \cup p ELSE {}
VisibleOther(c) == c

\* The step in which a call that wrote rows ends.
CallEnds == tpc = "in_call" /\ tpc' = "idle" /\ written # {}

\* C9 as stated: after a call that wrote rows and raised, none of them is
\* visible on any connection; after one that wrote rows and returned, all of
\* them are committed, nothing else but what was on the connection is, and
\* the caller gets the return value.
C9_CommitOrRollback ==
    [][ CallEnds =>
          /\ funcDid'.kind = "raise" =>
                /\ written \cap VisibleSame(committed', pending', connOpen') = {}
                /\ written \cap VisibleOther(committed') = {}
          /\ funcDid'.kind = "return" =>
                /\ written \subseteq VisibleOther(committed')
                /\ committed' \subseteq atCall.committed \cup atCall.pending \cup written
                /\ callerSees' = Returned(funcDid'.value)
      ]_vars

\* C9 (amended): the same, for a callable that raises an exception of class
\* Exception, and for a callable that returns with the connection still open.
\* An exception that is only a BaseException is neither rolled back nor
\* committed: the rows stay pending on the connection.
C9_CommitOrRollbackException ==
    [][ CallEnds =>
          /\ (funcDid'.kind = "raise" /\ funcDid'.exc.cls = "Exception") =>
                /\ written \cap VisibleSame(committed', pending', connOpen') = {}
                /\ written \cap VisibleOther(committed') = {}
                /\ callerSees'.kind = "raise"
          /\ (funcDid'.kind = "raise" /\ funcDid'.exc.cls = "BaseException") =>
                /\ committed' = committed /\ pending' = pending
                /\ callerSees' = funcDid'
          /\ (funcDid'.kind = "return" /\ connOpen) =>
                /\ written \subseteq VisibleOther(committed')
                /\ pending' = {}
                /\ committed' \subseteq atCall.committed \cup atCall.pending \cup written
                /\ callerSees' = Returned(funcDid'.value)
      ]_vars

\* A call that wrote a row and raised an Exception on an open connection: the
\* row is gone, on a database that holds a row committed earlier.
C9_Witness ==
    /\ tpc = "idle" /\ connOpen
    /\ funcDid.kind = "raise" /\ funcDid.exc.cls = "Exception"
    /\ written = {1} /\ pending = {} /\ 1 \notin committed
    /\ 2 \in committed

\* C10 as stated: whenever the wrapped callable raised, the caller of the
\* wrapper gets that very exception.
C10_OriginalReraised ==
    (tpc = "idle" /\ funcDid.kind = "raise") => callerSees = funcDid

\* The callable raised with the connection closed: the caller gets the
\* ProgrammingError of conn.rollback() in place of the callable's exception.
C10_Witness ==
    /\ tpc = "idle" /\ ~connOpen
    /\ funcDid = Raised(FuncExc("Exception"))
    /\ callerSees = Raised(ProgrammingError("rollback"))

\* --------------------------------------------------------------------------
\* Retry wrappers
\* --------------------------------------------------------------------------

\* The invocations of the wrapped callable so far, in order.
Calls == SelectSeq(rtrace, LAMBDA e : e.ev = "call")
Sleeps == SelectSeq(rtrace, LAMBDA e : e.ev = "sleep")
RetryEntries == SelectSeq(rtrace, LAMBDA e : e.ev = "log" /\ e.what = "retry")

\* Every invocation so far raised the transient error, except that the last
\* one may have succeeded: what a callable that fails k times and then
\* succeeds shows of itself.
FailsThenSucceeds ==
    /\ \A i \in 1..(Len(Calls) - 1) : Calls[i].out = "OperationalError"
    /\ Len(Calls) > 0 => Calls[Len(Calls)].out \in {"OperationalError", "ok"}

\* C11: under retry_on_operational_error, a callable that raises the
\* transient error k times and then succeeds gives its success value after
\* exactly k+1 invocations when retries >= k+1, and with retries = k >= 1 the
\* transient error is re-raised after exactly k invocations. While fewer than
\* retries invocations have failed the wrapper keeps going, and a finished
\* call makes no further invocation.
C11_RetryUntilSuccess ==
    (rwrap = "retry" /\ rpc # "idle" /\ FailsThenSucceeds) =>
        LET m == Len(Calls) IN
        /\ attempt = m
        /\ \A i \in 1..m : Calls[i].n = i
        /\ (rpc = "done" /\ Calls[m].out = "ok") =>
              /\ rresult = Returned(Calls[m].value)
              /\ r_retries >= m \/ m = 1
        /\ (rpc = "done" /\ Calls[m].out = "OperationalError") =>
              /\ rresult = Raised(AttemptExc("OperationalError", m))
              /\ r_retries >= 1 => m = r_retries
        /\ (rpc = "running" /\ m > 0) =>
              /\ Calls[m].out = "OperationalError"
              /\ m < r_retries

\* Two transient failures, then success at the third of three attempts.
C11_Witness ==
    /\ rwrap = "retry" /\ rpc = "done" /\ r_retries = 3
    /\ Len(Calls) = 3
    /\ Calls[1].out = "OperationalError" /\ Calls[2].out = "OperationalError"
    /\ rresult = Returned("r2")

\* C12: in both wrappers an exception of the callable that is not the
\* transient error ends the call at once: nothing is invoked and no delay is
\* inserted after it, and the caller gets that exception, so that a callable
\* failing this way at its first invocation is invoked exactly once with no
\* delay at all. When the attempts are exhausted the caller gets the
\* transient error of the last attempt.
C12_OnlyTransientRetried ==
    /\ \A i \in 1..Len(rtrace) :
          (rtrace[i].ev = "call" /\ rtrace[i].out \in {"Exception", "BaseException"}) =>
              /\ \A j \in (i + 1)..Len(rtrace) : rtrace[j].ev = "log"
              /\ rpc = "done"
              /\ rresult = Raised(AttemptExc(rtrace[i].out, rtrace[i].n))
              /\ rtrace[i].n = Len(Calls)
    /\ (Len(Calls) > 0 /\ Calls[1].out \in {"Exception", "BaseException"}) =>
          Len(Calls) = 1 /\ Sleeps = <<>>
    /\ (rpc = "done" /\ Calls[Len(Calls)].out = "OperationalError") =>
          rresult = Raised(AttemptExc("OperationalError", Len(Calls)))

\* db_guardrail with retries = 3: the callable raised an Exception that is
\* not the transient error at its first invocation.
C12_Witness ==
    /\ rwrap = "guardrail" /\ rpc = "done" /\ r_retries = 3
    /\ Len(Calls) = 1 /\ Sleeps = <<>>
    /\ rresult = Raised(AttemptExc("Exception", 1))

C18_BackoffDelay ==
    rwrap = "retry" =>
        /\ \A i \in 1..Len(rtrace) :
              rtrace[i].ev = "sleep" =>
                  LET base == r_backoff * Pow2(rtrace[i].n - 1) IN
                  /\ r_jitter => (base <= rtrace[i].d /\ rtrace[i].d <= base + r_backoff)
                  /\ ~r_jitter => rtrace[i].d = base
                  /\ i > 1 /\ rtrace[i - 1] = EvCall(rtrace[i].n, "OperationalError", None)
                  /\ rtrace[i].n < r_retries
                  /\ rpc = "running" \/ i < Len(rtrace)
        /\ \A i \in 1..(Len(rtrace) - 1) :
              rtrace[i].ev = "call" =>
                  /\ rtrace[i + 1].ev = "sleep"
                  /\ rtrace[i + 1].n = rtrace[i].n
        /\ (rpc = "done") => rtrace[Len(rtrace)].ev = "call"
        /\ Len(Sleeps) = Len(Calls) - (IF rpc = "done" THEN 1 ELSE 0)

\* Four attempts without jitter and with backoff 2: the delays were 2, 4, 8.
C18_Witness ==
    /\ rwrap = "retry" /\ rpc = "done" /\ ~r_jitter /\ r_backoff = 2
    /\ Len(Sleeps) = 3
    /\ Sleeps[1].d = 2 /\ Sleeps[2].d = 4 /\ Sleeps[3].d = 8

\* --------------------------------------------------------------------------
\* run_query
\* --------------------------------------------------------------------------

\* C13 as stated: once run_query has returned or raised, the cursor and the
\* connection it opened are both closed.
C13_CursorAndConnectionReleased ==
    qpc = "done" => (q_cur = "closed" /\ q_conn = "closed")

\* What the code gives: the cursor is closed on both paths, and the rows
\* or the exception of the statement reach the caller.
C13_CursorReleased ==
    qpc = "done" => (q_cur = "closed" /\ q_result = q_executed /\ q_pending = {})

\* run_query has raised for a rejected statement: its cursor is closed, its
\* connection is still open.
C13_Witness ==
    /\ qpc = "done" /\ q_result = Raised(FuncExc("OperationalError"))
    /\ q_cur = "closed" /\ q_conn = "open"

\* --------------------------------------------------------------------------
\* File scopes
\* --------------------------------------------------------------------------

\* C14 as stated: after a scope of either form is left, normally or by an
\* exception of the body, the handle is closed, and an exception of the body
\* is what the caller gets.
C14_ClosedAndPropagated ==
    fpc = "exited" =>
        /\ f_handle = "closed"
        /\ f_body.kind = "raise" => f_caller = f_body

\* What the code gives: the handle is closed on every path and a body that
\* raised never leaves the caller without an exception; the caller gets the
\* body's own exception in the generator form, and in the class form unless
\* close() raised.
C14_ClosedOnEveryPath ==
    fpc = "exited" =>
        /\ f_handle = "closed"
        /\ f_body.kind = "raise" => f_caller.kind = "raise"
        /\ (f_form = "generator" \/ ~f_closeFails) => f_caller = f_body

\* A FileOpenerCM scope whose body raised and whose close() raised: the
\* caller gets the OSError of close().
C14_Witness ==
    /\ fpc = "exited" /\ f_form = "class" /\ f_handle = "closed"
    /\ f_body = Raised(FuncExc("Exception"))
    /\ f_caller = Raised(CloseError)

\* --------------------------------------------------------------------------
\* timer and catch_and_log
\* --------------------------------------------------------------------------

\* C15: every call of a callable wrapped by timer emits exactly one timing
\* observation, whether the callable returned or raised: to the supplied
\* logger when there is one and to standard output otherwise. The caller
\* gets the callable's value or exception, and the wrapper has the
\* callable's __name__.
C15_TimerOneObservation ==
    (d_deco = "timer" /\ dpc # "idle") =>
        /\ d_wname = d_fname
        /\ Len(d_emitted) = d_calls
        /\ \A i \in 1..Len(d_emitted) :
              /\ d_emitted[i].dest = (IF d_logger THEN SuppliedLogger ELSE Stdout)
              /\ d_emitted[i].text = <<d_fname, "elapsed_ms">>
        /\ dpc = "done" => (Len(d_last) = 1 /\ d_caller = d_func)

\* Two calls of a timer wrapper without a logger, the second of which
\* raised: two observations on standard output.
C15_Witness ==
    /\ d_deco = "timer" /\ dpc = "done" /\ ~d_logger /\ d_calls = 2
    /\ d_func.kind = "raise" /\ d_caller = d_func
    /\ Len(d_emitted) = 2 /\ d_emitted[2].dest = Stdout

\* C16 as stated: whenever the callable raises, exactly one entry with the
\* exception is logged, and the exception is re-raised if reraise is set and
\* swallowed with None returned if not; a normal return logs nothing and
\* passes through.
C16_LoggedThenReraisedOrSwallowed ==
    (d_deco = "catch_and_log" /\ dpc = "done") =>
        /\ d_func.kind = "raise" =>
              /\ Len(d_last) = 1 /\ d_last[1].exc = d_func.exc
              /\ d_caller = (IF d_reraise THEN d_func ELSE Returned(None))
        /\ d_func.kind = "return" => (d_last = <<>> /\ d_caller = d_func)

\* C16: the same for a callable that raises an Exception. An exception that
\* is only a BaseException is not logged and reaches the caller whatever
\* reraise is.
C16_ExceptionLoggedThenReraisedOrSwallowed ==
    (d_deco = "catch_and_log" /\ dpc = "done") =>
        /\ (d_func.kind = "raise" /\ d_func.exc.cls = "Exception") =>
              /\ Len(d_last) = 1 /\ d_last[1].exc = d_func.exc
              /\ d_last[1].dest = (IF d_logger THEN SuppliedLogger ELSE DefaultLogger)
              /\ d_caller = (IF d_reraise THEN d_func ELSE Returned(None))
        /\ (d_func.kind = "raise" /\ d_func.exc.cls = "BaseException") =>
              (d_last = <<>> /\ d_caller = d_func)
        /\ d_func.kind = "return" => (d_last = <<>> /\ d_caller = d_func)
        /\ d_wname = d_fname

\* reraise is off and the callable raised an Exception: one entry, None
\* returned.
C16_Witness ==
    /\ d_deco = "catch_and_log" /\ dpc = "done" /\ ~d_reraise
    /\ d_func = Raised(FuncExc("Exception"))
    /\ Len(d_last) = 1 /\ d_caller = Returned(None)

\* --------------------------------------------------------------------------
\* Report records
\* --------------------------------------------------------------------------

\* C19 as stated: every record of the emitted report has one of the
\* statuses passed, failed, errored, and an empty message exactly when it is
\* passed.
C19_StatusPassedFailedErrored ==
    summary.emitted =>
        \A i \in 1..Len(summary.details) :
            /\ summary.details[i].status \in {"passed", "failed", "errored"}
            /\ (summary.details[i].message = "") <=> (summary.details[i].status = "passed")

\* C19: every record of the emitted report has one of the statuses passed,
\* failed, error, and an empty message exactly when it is passed; the
\* status is the one of the check's outcome.
C19_StatusPassedFailedError ==
    summary.emitted =>
        /\ summary.details = details
        /\ \A i \in 1..Len(summary.details) :
              /\ summary.details[i].status \in {"passed", "failed", "error"}
              /\ (summary.details[i].message = "") <=> (summary.details[i].status = "passed")
              /\ Loaded => summary.details[i].status =
                     (CASE outcomes[i] = "pass" -> "passed"
                        [] outcomes[i] = "assert" -> "failed"
                        [] outcomes[i] = "exception" -> "error")

\* A report that holds a record of each status.
C19_Witness ==
    /\ summary.emitted /\ Loaded
    /\ \E i, j, k \in 1..Len(summary.details) :
          /\ summary.details[i].status = "passed" /\ summary.details[i].message = ""
          /\ summary.details[j].status = "failed" /\ summary.details[j].message # ""
          /\ summary.details[k].status = "error" /\ summary.details[k].message # ""

\* --------------------------------------------------------------------------
\* Command line
\* --------------------------------------------------------------------------

\* C20 as stated: the module loaded is the one named on the command line and
\* 'submission' when none is named; -q or -v as the first argument is not
\* taken as a module name and leaves the module that is loaded unchanged.
C20_VerbosityFlagNotAModule ==
    mpc = "imported" =>
        LET wanted == IF Len(sys_argv) = 1 \/ Argv1(sys_argv) \in {"-q", "-v"}
                        THEN "submission" ELSE Argv1(sys_argv)
        IN /\ Len(sys_argv) > 1 /\ Argv1(sys_argv) \in {"-q", "-v"} => mod_name = None
           /\ wanted \in installed => (m_loaded = wanted /\ m_error = None)

\* What the code gives: the first argument, whatever it is, is the module
\* name, and 'submission' is loaded only when there is no argument.
C20_FirstArgumentIsModule ==
    mpc = "imported" =>
        /\ mod_name = (IF Len(sys_argv) > 1 THEN Argv1(sys_argv) ELSE None)
        /\ LET wanted == IF Len(sys_argv) = 1 THEN "submission" ELSE Argv1(sys_argv)
           IN IF wanted \in installed
                THEN m_loaded = wanted /\ m_error = None
                ELSE m_loaded = None /\ m_error # None

\* -q on the command line with submission present: -q was taken as the
\* module name and the import failed.
C20_Witness ==
    /\ mpc = "imported" /\ sys_argv = <<Script, "-q">>
    /\ "submission" \in installed
    /\ mod_name = "-q" /\ m_loaded = None /\ m_error = "ModuleNotFoundError"

\* --------------------------------------------------------------------------
\* Elapsed-time entries of db_guardrail
\* --------------------------------------------------------------------------

ElapsedEntries == SelectSeq(rtrace, LAMBDA e : e.ev = "log" /\ e.what = "elapsed")

\* The place in the trace of the event of attempt n that satisfies Is.
PlaceOf(n, Is(_)) == CHOOSE i \in 1..Len(rtrace) : rtrace[i].n = n /\ Is(rtrace[i])

IsCall(e) == e.ev = "call"
IsSleep(e) == e.ev = "sleep"
IsRetryEntry(e) == e.ev = "log" /\ e.what = "retry"
IsElapsedEntry(e) == e.ev = "log" /\ e.what = "elapsed"

\* C21: db_guardrail logs its elapsed time once per attempt: after n
\* invocations of the callable the log holds exactly n elapsed entries, one
\* for each attempt, however the call ends; the entry of an attempt that is
\* retried comes after that attempt's retry entry and after its backoff
\* delay.
C21_ElapsedPerAttempt ==
    (rwrap = "guardrail" /\ rpc # "idle") =>
        /\ Len(ElapsedEntries) = Len(Calls)
        /\ \A i \in 1..Len(ElapsedEntries) : ElapsedEntries[i].n = i
        /\ \A i \in 1..Len(RetryEntries) :
              LET n == RetryEntries[i].n IN
              /\ PlaceOf(n, IsCall) < PlaceOf(n, IsRetryEntry)
              /\ PlaceOf(n, IsRetryEntry) < PlaceOf(n, IsSleep)
              /\ PlaceOf(n, IsSleep) < PlaceOf(n, IsElapsedEntry)
        /\ rpc = "done" => IsElapsedEntry(rtrace[Len(rtrace)])

\* Two retried attempts and a third that succeeds: three elapsed entries.
C21_Witness ==
    /\ rwrap = "guardrail" /\ rpc = "done" /\ rresult.kind = "return"
    /\ Len(Calls) = 3 /\ Len(RetryEntries) = 2
    /\ Len(ElapsedEntries) = 3

\* --------------------------------------------------------------------------
\* Termination of retry_on_operational_error
\* --------------------------------------------------------------------------

C22_TornDownBeforeCheckEnds ==
    /\ cpc = "between" => c_live = {}
    /\ \A r \in c_live : r.owner = c_test

\* What the code gives: temporary files, environment overrides, locks and
\* TempSQLite databases are gone when their check ends; a log handler stays
\* on the logger until the next LogCapture replaces it, so there is never
\* more than one.
C22_AllButHandlerAndQueryConnection ==
    /\ \A r \in c_live :
          r.kind \in {"tempfile", "environ", "lock", "tempdb"} =>
              (r.owner = c_test /\ cpc \in {"body", "finishing"})
    /\ Cardinality({r \in c_live : r.kind = "handler"}) <= 1

\* test_08 has started while the handler test_07 attached is still on the
\* logger.
C22_Witness ==
    /\ c_test = 8 /\ cpc = "started"
    /\ Resource("handler", 7) \in c_live

\* --------------------------------------------------------------------------
\* LogCapture
\* --------------------------------------------------------------------------

\* C23: once a LogCapture has been constructed on the logger name, the
\* logger has exactly one handler, the one of the most recent instance,
\* however many were constructed. A text emitted to the logger is in no
\* stream but the one of the instance that was the most recent when it was
\* emitted, and flush_text of an instance returns nothing that was emitted
\* before that instance was created.
C23_OneHandlerLatestInstance ==
    LET n == Len(instances) IN
    /\ n > 0 => handlers = <<n>>
    /\ \A i \in 1..n : \A k \in 1..Len(streams[i]) :
          /\ streams[i][k] > instances[i].before
          /\ i < n => streams[i][k] <= instances[i + 1].before
    /\ flushed # NoFlush =>
          \A k \in 1..Len(flushed.text) :
              flushed.text[k] > instances[flushed.inst].before

\* Three instances, a text captured by the second, and a flush_text of the
\* third that is empty.
C23_Witness ==
    /\ Len(instances) = 3 /\ handlers = <<3>>
    /\ streams[2] # <<>> /\ instances[3].before > 0
    /\ flushed = [inst |-> 3, text |-> <<>>]

\* --------------------------------------------------------------------------
\* Counts of the report
\* --------------------------------------------------------------------------

\* The number of records of the report with a status.
WithStatus(status) ==
    Cardinality({i \in 1..Len(summary.details) : summary.details[i].status = status})

CountsConsistent ==
    /\ summary.passed >= 0 /\ summary.failed >= 0 /\ summary.errored >= 0
    /\ summary.passed + summary.failed + summary.errored = summary.tests
    /\ Len(summary.details) = summary.tests
    /\ WithStatus("passed") = summary.passed
    /\ WithStatus("failed") = summary.failed
    /\ WithStatus("error") = summary.errored

\* C24 as stated: in every run, one in which the module fails to load
\* included, passed, failed and errored are not negative and add up to
\* tests, and the report holds tests records, passed of them with the
\* passed status, failed with the failure status, errored with the error
\* status.
C24_CountsConsistent ==
    summary.emitted => CountsConsistent

\* What the code gives: the counts are consistent in every run in which the
\* module was loaded.
C24_CountsConsistentWhenLoaded ==
    (summary.emitted /\ Loaded) => CountsConsistent

\* The report of a run in which the module failed to load: no test, one
\* record, one error and passed = -1.
C24_Witness ==
    /\ summary.emitted /\ ~importable
    /\ summary.tests = 0 /\ summary.passed = -1 /\ summary.errored = 1
    /\ Len(summary.details) = 1

\* --------------------------------------------------------------------------
\* Mutual exclusion of Locked
\* --------------------------------------------------------------------------

InBody == {t \in Threads : lpc[t] = "body"}

\* C25: in every interleaving of threads that use Locked scopes on one lock,
\* with and without timeouts, at most one thread is in the body of a scope,
\* and it is the one that holds the lock. The lock is released by no step
\* but one of the thread that holds it; the step in which an entry times out
\* leaves the lock with its holder.
C25_MutualExclusion ==
    /\ [](/\ Cardinality(InBody) <= 1
          /\ \A t \in InBody : locked /\ holder = t /\ l_acquired[t])
    /\ [][ /\ (locked /\ (~locked' \/ holder' # holder)) =>
                (lpc[holder] \in {"body", "rawheld"} /\ lpc'[holder] = "idle" /\ ~locked')
           /\ \A t \in Threads :
                 (lresult'[t] = "TimeoutError" /\ lresult[t] # "TimeoutError") =>
                     (locked' /\ holder' = holder /\ holder # t /\ lpc'[t] = "idle")
       ]_vars

\* One thread is in the body of its scope, another has timed out, and the
\* lock is still the first one's.
C25_Witness ==
    /\ lpc["t1"] = "body" /\ locked /\ holder = "t1"
    /\ lresult["t2"] = "TimeoutError" /\ lpc["t2"] = "idle"

\* --------------------------------------------------------------------------
\* Writes pending before a call of autocommit_sqlite
\* --------------------------------------------------------------------------

\* The step in which a call through the wrapper ends.
AnyCallEnds == tpc = "in_call" /\ tpc' = "idle"

\* The caller got an exception of class Exception: the callable's own, or
\* the ProgrammingError of a commit or rollback on a closed connection.
CallerGotException(result) ==
    /\ result.kind = "raise"
    /\ result.exc.cls = "Exception"

\* C27: when a call through autocommit_sqlite returns, or raises an
\* Exception, the connection is left with no uncommitted write, in every
\* sequence of calls and of writes between them. A call that returns has
\* committed the writes that were pending before it together with its own;
\* a call that raises has committed nothing, and the writes that were
\* pending before it are discarded with its own.
C27_NothingPendingAfterCall ==
    [][ AnyCallEnds =>
          /\ callerSees'.kind = "return" =>
                /\ pending' = {}
                /\ committed' = committed \cup pending
                /\ atCall.pending \cup written \subseteq committed'
          /\ CallerGotException(callerSees') =>
                /\ pending' = {}
                /\ committed' = committed
                /\ (atCall.pending \cup written) \cap committed' = {}
      ]_vars

\* A call that raised an Exception after a write of its own, on a
\* connection that had a write pending before the call: both are gone.
C27_Witness ==
    /\ tpc = "idle" /\ connOpen
    /\ callerSees = Raised(FuncExc("Exception"))
    /\ atCall.pending = {1} /\ written = {2}
    /\ pending = {} /\ committed = {}

====
